---------------------------- MODULE Spec2Model ----------------------------
(***************************************************************************)
(* bladwijzers: a CLI bookmark organizer (index.js and an earlier copy of  *)
(* the same script, part_000).                                             *)
(*                                                                         *)
(* Strings are sequences of one-character strings, so that startsWith,     *)
(* replace, truncate and the fuzzy matcher are computed character by       *)
(* character as the JavaScript does.  A bookmark item is a record with the *)
(* fields hash, collection, url and (once entered) title.  Every CLI       *)
(* invocation is one process p with its own position run[p].pc; the        *)
(* persisted configuration file is the single shared variable file.        *)
(***************************************************************************)
EXTENDS Naturals, Sequences, FiniteSets, TLC

VARIABLES
    file,       \* config key "items": the persisted list of bookmark items
    run         \* run[p]: the locals and position of CLI invocation p

vars == <<file, run>>

-----------------------------------------------------------------------------
(* Bounds and input domains *)

\* An add command is started only while the store holds fewer items.
MaxItems == 2

Procs == {1, 2}

Str_a == <<"a">>
Str_t == <<"t">>
Str_s == <<"s">>

\* a 41-character title: one more than the truncation length of the list
LongTitle == [i \in 1..41 |-> IF i = 41 THEN "y" ELSE "x"]

UrlA      == <<"h","t","t","p",":","/","/","a",".","i","o">>
UrlASlash == <<"h","t","t","p",":","/","/","a",".","i","o","/">>
UrlAUpper == <<"h","t","t","p",":","/","/","A",".","i","o">>
UrlB      == <<"h","t","t","p",":","/","/","b",".","i","o">>
UrlC      == <<"h","t","t","p",":","/","/","c",".","i","o">>
NotAUrl   == <<"n","o","p","e">>
UrlSpace  == <<"h","t","t","p",":","/","/","a"," ","b">>

-----------------------------------------------------------------------------
(* JavaScript string operations *)

createCollectionStr ==
    <<"c","r","e","a","t","e"," ","c","o","l","l","e","c","t","i","o","n",":"," ">>

startsWith(s, pre) ==
    /\ Len(s) >= Len(pre)
    /\ SubSeq(s, 1, Len(pre)) = pre

\* 1-based position of the first occurrence of pat in s, 0 when there is none
\* (String.prototype.indexOf + 1)
indexOfStr(s, pat) ==
    LET hits == {i \in 1..(Len(s) + 1) :
                    /\ i + Len(pat) - 1 <= Len(s)
                    /\ SubSeq(s, i, i + Len(pat) - 1) = pat}
    IN  IF hits = {} THEN 0 ELSE CHOOSE i \in hits : \A j \in hits : i <= j

\* String.prototype.replace with a string pattern: the first occurrence only
replace(s, pat, rep) ==
    LET i == indexOfStr(s, pat)
    IN  IF i = 0 THEN s
        ELSE SubSeq(s, 1, i - 1) \o rep \o SubSeq(s, i + Len(pat), Len(s))

UpperChars == <<"A","B","C","D","E","F","G","H","I","J","K","L","M",
                "N","O","P","Q","R","S","T","U","V","W","X","Y","Z">>
LowerChars == <<"a","b","c","d","e","f","g","h","i","j","k","l","m",
                "n","o","p","q","r","s","t","u","v","w","x","y","z">>

\* the lower-case letter of each upper-case letter
lowerOf ==
    [c \in {UpperChars[k] : k \in 1..26} |->
        LowerChars[CHOOSE k \in 1..26 : UpperChars[k] = c]]

toLowerCase(s) ==
    [i \in 1..Len(s) |-> IF s[i] \in DOMAIN lowerOf THEN lowerOf[s[i]] ELSE s[i]]

\* lodash _.truncate(s, {length: 40}): the default omission is "..."
TruncateLength == 40
omission == <<".", ".", ".">>

truncate(s) ==
    IF Len(s) <= TruncateLength THEN s
    ELSE SubSeq(s, 1, TruncateLength - Len(omission)) \o omission

\* the colors package wraps a string in ANSI escape codes
green(s) == <<"ESC[32m">> \o s \o <<"ESC[39m">>
blue(s)  == <<"ESC[34m">> \o s \o <<"ESC[39m">>

-----------------------------------------------------------------------------
(* URLs: validation, normalization, hashing *)

Letters == {LowerChars[k] : k \in 1..26} \cup {UpperChars[k] : k \in 1..26}
Digits == {"0", "1", "2", "3", "4", "5", "6", "7", "8", "9"}
HexDigits == Digits \cup {"a", "b", "c", "d", "e", "f", "A", "B", "C", "D", "E", "F"}

\* valid-url is_iri: every character outside this set is illegal
UriChars ==
    Letters \cup Digits \cup
    {":", "/", "?", "#", "[", "]", "@", "!", "$", "&", "'", "(", ")", "*",
     "+", ",", ";", "=", ".", "-", "_", "~", "%"}

\* valid-url is_iri: what may follow the first letter of a scheme
SchemeChars == Letters \cup Digits \cup {"+", "-", "."}

\* valid-url splitUri: the characters that end the scheme, the authority
Delims == {":", "/", "?", "#"}

\* valid-url splitUri: the index of the ":" that ends the scheme, 0 when the
\* value has no scheme
schemeEnd(url) ==
    LET ends == {i \in 1..Len(url) : url[i] \in Delims}
    IN  IF ends = {} THEN 0
        ELSE LET i == CHOOSE e \in ends : \A f \in ends : e <= f
             IN  IF i > 1 /\ url[i] = ":" THEN i ELSE 0

\* valid-url isUri (is_iri), as a truth value
isUri(url) ==
    LET n == Len(url)
        e == schemeEnd(url)
        rest == SubSeq(url, e + 1, n)
    IN  /\ n > 0
        \* no illegal character
        /\ \A i \in 1..n : url[i] \in UriChars
        \* no "%" followed by a character that is no hex digit
        /\ \A i \in 1..(n - 1) : url[i] = "%" => url[i + 1] \in HexDigits
        \* no "%" and one hex digit followed by a non-hex character or by the end
        /\ \A i \in 1..(n - 1) :
               (url[i] = "%" /\ url[i + 1] \in HexDigits)
                   => (i + 2 <= n /\ url[i + 2] \in HexDigits)
        \* the scheme is required
        /\ e > 0
        \* with an empty authority the path must not start with "//"
        /\ ~startsWith(rest, <<"/", "/", "/", "/">>)
        \* the scheme is a letter, then letters, digits, "+", "-" or "."
        /\ url[1] \in Letters
        /\ \A j \in 2..(e - 1) : url[j] \in SchemeChars

\* normalize-url on URLs of the form scheme://host[/]: scheme and host are
\* lower-cased and the trailing slash is removed.
normalizeUrl(url) ==
    LET low == toLowerCase(url)
    IN  IF Len(low) > 0 /\ low[Len(low)] = "/"
        THEN SubSeq(low, 1, Len(low) - 1)
        ELSE low

\* md5 hex digest of the normalized URL: an injective tag on this domain
md5(s) == [md5 |-> s]

hashUrl(url) == md5(normalizeUrl(url))

\* new URL(url).hostname: the text between "//" and the next "/", lower-cased
hostname(url) ==
    LET i    == indexOfStr(url, <<"/", "/">>)
        rest == SubSeq(url, i + 2, Len(url))
        j    == indexOfStr(rest, <<"/">>)
    IN  toLowerCase(IF j = 0 THEN rest ELSE SubSeq(rest, 1, j - 1))

\* terminal-link: the text shown and the target it links to
terminalLink(text, target) == [text |-> text, url |-> target]

-----------------------------------------------------------------------------
(* The store: pure operations on the item list read from the file *)

\* what Array.prototype.find yields when nothing matches
undefined == [undefined |-> TRUE]

Min(S) == CHOOSE i \in S : \A j \in S : i <= j

\* getItem comparing the URL text instead of the hash
getItem_byUrl(items, url) ==
    LET hits == {i \in 1..Len(items) : items[i].url = url}
    IN  IF hits = {} THEN undefined ELSE items[Min(hits)]

\* store.getItem: the first item whose hash is the hash of url
getItem(items, url) ==
    LET hash == hashUrl(url)
        hits == {i \in 1..Len(items) : items[i].hash = hash}
    IN  IF hits = {} THEN undefined ELSE items[Min(hits)]

\* store.addItem: the list that is saved
addItem(items, item) == Append(items, item)

\* store.removeItem of index.js: the list that is saved
removeItem(items, item) == SelectSeq(items, LAMBDA x : x.url # item.url)

\* store.removeItem of part_000: the list that is saved
removeItem_part000(items, item) == SelectSeq(items, LAMBDA x : x.url = item.url)

\* _.uniq: the first occurrence of each value, in order
RECURSIVE uniq(_)
uniq(s) ==
    IF s = <<>> THEN <<>>
    ELSE LET init == uniq(SubSeq(s, 1, Len(s) - 1))
             last == s[Len(s)]
         IN  IF \E i \in 1..Len(init) : init[i] = last
             THEN init ELSE Append(init, last)

getCollections(items) == uniq([i \in 1..Len(items) |-> items[i].collection])

getCollectionItems(items, collection) ==
    SelectSeq(items, LAMBDA x : x.collection = collection)

\* fuzzy.match: scan str left to right, matching the pattern's characters in
\* order; consecutive matches score more than linearly.  Yields
\* <<characters of the pattern matched, total score>>.
RECURSIVE fuzzyScan(_, _, _, _, _, _)
fuzzyScan(pattern, str, idx, patternIdx, currScore, totalScore) ==
    IF idx > Len(str) THEN <<patternIdx - 1, totalScore>>
    ELSE IF patternIdx <= Len(pattern) /\ str[idx] = pattern[patternIdx]
         THEN fuzzyScan(pattern, str, idx + 1, patternIdx + 1,
                        1 + 2 * currScore, totalScore + 1 + 2 * currScore)
         ELSE fuzzyScan(pattern, str, idx + 1, patternIdx, 0, totalScore)

\* fuzzy.match: [matched, infinite, score]; an exact match scores Infinity
fuzzyMatch(pattern, str) ==
    LET p == toLowerCase(pattern)
        c == toLowerCase(str)
        r == fuzzyScan(p, c, 1, 1, 0, 0)
    IN  [matched  |-> r[1] = Len(p),
         infinite |-> c = p,
         score    |-> r[2]]

\* the comparator of fuzzy.filter on two match results a and b found at the
\* indexes i and j of the input array: b.score - a.score, ties (and the NaN
\* of Infinity - Infinity) broken by the index
fuzzyBefore(a, i, b, j) ==
    IF a.infinite # b.infinite THEN a.infinite
    ELSE IF ~a.infinite /\ a.score # b.score THEN a.score > b.score
    ELSE i < j

\* fuzzy.filter(pattern, arr).map(x => x.string)
fuzzyFilter(pattern, arr) ==
    LET m    == [i \in 1..Len(arr) |-> fuzzyMatch(pattern, arr[i])]
        keep == {i \in 1..Len(arr) : m[i].matched}
        rank == [i \in keep |->
                    1 + Cardinality({j \in keep :
                                        j # i /\ fuzzyBefore(m[j], j, m[i], i)})]
    IN  [k \in 1..Cardinality(keep) |-> arr[CHOOSE i \in keep : rank[i] = k]]

fuzzySearchCollections(items, input) ==
    IF input = <<>> THEN getCollections(items)
    ELSE fuzzyFilter(input, getCollections(items))

-----------------------------------------------------------------------------
(* Prompts and metadata *)

\* the source callback of selectCollection: the choices offered for an input
source(items, input, createNew) ==
    LET choices == fuzzySearchCollections(items, input)
    IN  IF Len(input) > 0 /\ createNew
        THEN Append(choices, createCollectionStr \o input)
        ELSE choices

\* the validate callback of selectCollection (index.js)
validate(items, val) ==
    /\ Len(val) > 0
    /\ \/ startsWith(val, createCollectionStr)
       \/ \E i \in 1..Len(getCollections(items)) : getCollections(items)[i] = val

\* the source callback of selectCollection in part_000: the create choice is
\* offered whatever the command
source_part000(items, input) ==
    LET choices == fuzzySearchCollections(items, input)
    IN  IF Len(input) > 0
        THEN Append(choices, createCollectionStr \o input)
        ELSE choices

\* the validate callback of selectCollection in part_000
validate_part000(val) == Len(val) > 0

\* what selectCollection returns for the answer of the prompt
selectCollectionResult(answer) == replace(answer, createCollectionStr, <<>>)

\* the inquirer input prompt: an empty line yields the default, if there is one
promptInput(line, default) ==
    IF line # <<>> THEN line
    ELSE IF "title" \in DOMAIN default THEN default.title ELSE <<>>

\* fetchItemMeta once the race is won by resp: undefined is the timeout's
\* value; metascraper (title rule only) adds the title it finds in the body
fetchItemMeta(url, resp) ==
    IF resp = undefined THEN [url |-> url]
    ELSE IF "title" \in DOMAIN resp
         THEN [url |-> url, title |-> resp.title]
         ELSE [url |-> url]

\* createItem of index.js: { hash, collection, ...meta }
createItem(meta, collection) ==
    meta @@ [hash |-> hashUrl(meta.url), collection |-> collection]

\* createItem of part_000: { hash, url, collection, ...meta }
createItem_part000(url, collection, resp) ==
    (IF "title" \in DOMAIN resp THEN [title |-> resp.title] ELSE [url |-> url])
        @@ [hash |-> hashUrl(url), url |-> url, collection |-> collection]

\* listCommand: the object handed to treeify after the first n items
RECURSIVE listTree(_, _)
listTree(items, n) ==
    IF n = 0 THEN <<>>
    ELSE LET collections == listTree(items, n - 1)
             item  == items[n]
             title == green(truncate(item.title))
             url   == blue(hostname(item.url) \o <<"/", "U+2026">>)
             old   == IF item.collection \in DOMAIN collections
                      THEN collections[item.collection] ELSE <<>>
             new   == [k \in {title} \cup DOMAIN old |->
                          IF k \in DOMAIN old THEN old[k]
                          ELSE terminalLink(url, item.url)]
         IN  [c \in DOMAIN collections \cup {item.collection} |->
                 IF c = item.collection THEN new ELSE collections[c]]

listCommand(items) == listTree(items, Len(items))

-----------------------------------------------------------------------------
(* The state of one CLI invocation *)

\* resp before Promise.race has settled
NoResp == [pending |-> TRUE]

NoOutput == [stream |-> "none", msg |-> "none", collection |-> <<>>]

IdleRun ==
    [pc         |-> "idle",     \* where the command stands
     cmd        |-> "none",     \* add, remove, open or list
     url        |-> <<>>,       \* addCommand: url
     sel        |-> "none",     \* the selectCollection promise of addCommand
     input      |-> <<>>,       \* selectCollection: currentInput
     choices    |-> <<>>,       \* selectCollection: the choices source returned
     answer     |-> <<>>,       \* selectCollection: answers.collection
     collection |-> <<>>,       \* what selectCollection returned
     got        |-> "none",     \* the HTTP request: pending, resolved, rejected
     timer      |-> "none",     \* timeout(5000): pending, fired
     fetch      |-> "none",     \* the fetchItemMeta promise
     resp       |-> NoResp,     \* fetchItemMeta: resp, what the race yielded
     meta       |-> undefined,  \* what fetchItemMeta returned
     item       |-> undefined,  \* addCommand / removeCommand / openCommand: item
     typed      |-> <<>>,       \* the line entered at the title prompt
     found      |-> <<>>,       \* selectItem: items
     items      |-> <<>>,       \* store.addItem / removeItem: items
     out        |-> NoOutput,   \* the last output.err / output.info line
     tree       |-> <<>>,       \* listCommand: collections
     opened     |-> <<>>,       \* the URL handed to opn
     writes     |-> 0,          \* saveItems calls of this invocation
     replaced   |-> <<>>]       \* the file's list that its saveItems replaced

Init ==
    /\ file = <<>>
    /\ run = [p \in Procs |-> IdleRun]

Err(msg, collection) == [stream |-> "err", msg |-> msg, collection |-> collection]
Info(msg) == [stream |-> "info", msg |-> msg, collection |-> <<>>]

-----------------------------------------------------------------------------
(* addCommand of index.js *)

\* addChecks without the lookup of an existing item
addChecks_noExisting(r, items, url) ==
    IF ~isUri(url)
    THEN [r EXCEPT !.pc = "done", !.url = url, !.out = Err("not valid", <<>>)]
    ELSE [r EXCEPT !.pc = "join", !.url = url, !.sel = "pending",
                   !.got = "pending", !.timer = "pending", !.fetch = "pending"]

\* addCommand from the validity check up to the start of Promise.all: the
\* synchronous stretch that follows the url being known
addChecks(r, items, url) ==
    IF ~isUri(url)
    THEN [r EXCEPT !.pc = "done", !.url = url, !.out = Err("not valid", <<>>)]
    ELSE LET existingItem == getItem(items, url)
         IN  IF existingItem # undefined
             THEN [r EXCEPT !.pc = "done", !.url = url,
                            !.out = Err("already added", existingItem.collection)]
             ELSE [r EXCEPT !.pc = "join", !.url = url, !.sel = "pending",
                            !.got = "pending", !.timer = "pending",
                            !.fetch = "pending"]

\* The bound of the model: an add that passes its checks (r is the run after
\* them) is explored only while the store holds fewer than MaxItems items.
StoreHasRoom(r) == r.pc = "done" \/ Len(file) < MaxItems

\* `add [url]`: without a url the command first prompts for one
AddCommand(p, url) ==
    /\ run[p].pc = "idle"
    /\ LET r == [IdleRun EXCEPT !.cmd = "add"]
       IN  /\ url # <<>> => StoreHasRoom(addChecks(r, file, url))
           /\ run' = [run EXCEPT ![p] =
                          IF url = <<>> THEN [r EXCEPT !.pc = "inputUrl"]
                          ELSE addChecks(r, file, url)]
    /\ UNCHANGED file

\* inputUrl returns: its validate callback rejects the empty line
InputUrl(p, url) ==
    /\ run[p].pc = "inputUrl"
    /\ Len(url) > 0
    /\ StoreHasRoom(addChecks(run[p], file, url))
    /\ run' = [run EXCEPT ![p] = addChecks(run[p], file, url)]
    /\ UNCHANGED file

\* the autocomplete prompt of selectCollection is open: in addCommand the
\* prompt outlives a rejected Promise.all
promptOpen(r) == r.sel = "pending" \/ r.pc = "selectCollection"

\* the source callback runs for the text typed so far (the empty text when
\* the prompt opens): the choices shown are read from the store now;
\* createNew is true in addCommand only
Source(p, input) ==
    LET r == run[p]
    IN  /\ promptOpen(r)
        /\ run' = [run EXCEPT ![p] =
                      [r EXCEPT !.input = input,
                                !.choices = source(file, input, r.cmd = "add")]]
        /\ UNCHANGED file

\* Enter on line k of the choices shown: the validate callback reads the
\* store as it is now; a refused answer leaves the prompt open. The prompt
\* closes and its locals are gone. The answer of a prompt whose Promise.all
\* has rejected is awaited by nothing.
SelectCollection(p, k) ==
    LET r == run[p]
    IN  /\ promptOpen(r)
        /\ k \in 1..Len(r.choices)
        /\ validate(file, r.choices[k])
        /\ run' = [run EXCEPT ![p] =
                      [r EXCEPT !.answer = r.choices[k],
                                !.collection = selectCollectionResult(r.choices[k]),
                                !.input = <<>>,
                                !.choices = <<>>,
                                !.sel = IF r.sel = "pending" THEN "done" ELSE r.sel,
                                !.pc = IF r.sel = "pending" THEN r.pc
                                       ELSE "selectItem"]]
        /\ UNCHANGED file

\* GotResolve with a late response still replacing the metadata
GotResolve_overwrite(p, resp) ==
    LET r == run[p]
    IN  /\ r.got = "pending"
        /\ r.fetch # "none"
        /\ run' = [run EXCEPT ![p] =
                      IF r.fetch = "pending"
                      THEN [r EXCEPT !.got = "resolved", !.fetch = "fulfilled",
                                     !.resp = resp,
                                     !.meta = fetchItemMeta(r.url, resp)]
                      ELSE [r EXCEPT !.got = "resolved",
                                     !.meta = fetchItemMeta(r.url, resp)]]
        /\ UNCHANGED file

\* got resolves with a response (any status: throwHttpErrors is false); if
\* the race is still open it wins it, otherwise the response is dropped
GotResolve(p, resp) ==
    LET r == run[p]
    IN  /\ r.got = "pending"
        /\ r.fetch # "none"
        /\ run' = [run EXCEPT ![p] =
                      IF r.fetch = "pending"
                      THEN [r EXCEPT !.got = "resolved", !.fetch = "fulfilled",
                                     !.resp = resp,
                                     !.meta = fetchItemMeta(r.url, resp)]
                      ELSE [r EXCEPT !.got = "resolved"]]
        /\ UNCHANGED file

\* got rejects (a network error); if the race is still open the rejection
\* wins it: fetchItemMeta, Promise.all and addCommand reject in turn
GotReject(p) ==
    LET r == run[p]
    IN  /\ r.got = "pending"
        /\ r.fetch # "none"
        /\ run' = [run EXCEPT ![p] =
                      IF r.fetch = "pending"
                      THEN [r EXCEPT !.got = "rejected", !.fetch = "rejected",
                                     !.pc = "failed"]
                      ELSE [r EXCEPT !.got = "rejected"]]
        /\ UNCHANGED file

\* timeout(5000) resolves with undefined; if the race is still open it wins
Timeout(p) ==
    LET r == run[p]
    IN  /\ r.timer = "pending"
        /\ run' = [run EXCEPT ![p] =
                      IF r.fetch = "pending"
                      THEN [r EXCEPT !.timer = "fired", !.fetch = "fulfilled",
                                     !.resp = undefined,
                                     !.meta = fetchItemMeta(r.url, undefined)]
                      ELSE [r EXCEPT !.timer = "fired"]]
        /\ UNCHANGED file

\* Join that does not wait for the collection prompt
Join_noWait(p) ==
    LET r == run[p]
    IN  /\ r.pc = "join"
        /\ r.fetch = "fulfilled"
        /\ run' = [run EXCEPT ![p] =
                      [r EXCEPT !.item = createItem(r.meta, r.collection),
                                !.pc = "inputTitle"]]
        /\ UNCHANGED file

\* Promise.all resolves once both promises have; createItem builds the item
Join(p) ==
    LET r == run[p]
    IN  /\ r.pc = "join"
        /\ r.sel = "done"
        /\ r.fetch = "fulfilled"
        /\ run' = [run EXCEPT ![p] =
                      [r EXCEPT !.item = createItem(r.meta, r.collection),
                                !.pc = "inputTitle"]]
        /\ UNCHANGED file

\* inputTitle returns; its validate callback rejects an empty value
InputTitle(p, line) ==
    LET r     == run[p]
        title == promptInput(line, r.item)
    IN  /\ r.pc = "inputTitle"
        /\ Len(title) > 0
        /\ run' = [run EXCEPT ![p] =
                      [r EXCEPT !.typed = line,
                                !.item = [title |-> title] @@ r.item,
                                !.pc = "addItem"]]
        /\ UNCHANGED file

\* store.addItem, first half: getItems and push.  With two invocations
\* interleaving the list can grow without limit; lists longer than
\* MaxItems + 1 are left unexplored.
AddItemGet(p) ==
    LET r == run[p]
    IN  /\ r.pc = "addItem"
        /\ Len(file) <= MaxItems
        /\ run' = [run EXCEPT ![p] =
                      [r EXCEPT !.items = addItem(file, r.item),
                                !.pc = "saveItems"]]
        /\ UNCHANGED file

\* SaveItems that reads the file again and merges instead of replacing it
SaveItems_merge(p) ==
    LET r == run[p]
    IN  /\ r.pc = "saveItems"
        /\ file' = IF r.cmd = "add" THEN addItem(file, r.item)
                   ELSE removeItem(file, r.item)
        /\ run' = [run EXCEPT ![p] =
                      [r EXCEPT !.writes = r.writes + 1,
                                !.replaced = file,
                                !.out = Info(IF r.cmd = "add" THEN "added" ELSE "removed"),
                                !.pc = "done"]]

\* store.saveItems, then the closing output.info of the command
SaveItems(p) ==
    LET r == run[p]
    IN  /\ r.pc = "saveItems"
        /\ file' = r.items
        /\ run' = [run EXCEPT ![p] =
                      [r EXCEPT !.writes = r.writes + 1,
                                !.replaced = file,
                                !.out = Info(IF r.cmd = "add" THEN "added" ELSE "removed"),
                                !.pc = "done"]]

-----------------------------------------------------------------------------
(* removeCommand, openCommand, listCommand *)

RemoveCommand(p) ==
    /\ run[p].pc = "idle"
    /\ run' = [run EXCEPT ![p] =
                  [IdleRun EXCEPT !.cmd = "remove", !.pc = "selectCollection"]]
    /\ UNCHANGED file

OpenCommand(p) ==
    /\ run[p].pc = "idle"
    /\ run' = [run EXCEPT ![p] =
                  [IdleRun EXCEPT !.cmd = "open",
                                  !.pc = "selectCollection"]]
    /\ UNCHANGED file

\* selectItem, up to its prompt: the items of the collection are read from
\* the file before the list prompt opens
SelectItemGet(p) ==
    LET r == run[p]
    IN  /\ r.pc = "selectItem"
        /\ run' = [run EXCEPT ![p] =
                      [r EXCEPT !.found = getCollectionItems(file, r.collection),
                                !.pc = "listPrompt"]]
        /\ UNCHANGED file

\* the titles selectItem offers for the items it has read
itemChoices(items) == [i \in 1..Len(items) |-> items[i].title]

\* selectItem once choice k is taken: the first of the items it has read
\* with the chosen title
selectItem(items, k) ==
    LET choices == itemChoices(items)
        i       == Min({j \in 1..Len(choices) : choices[j] = choices[k]})
    IN  items[i]

\* the list prompt of selectItem returns choice k of the list read earlier,
\* whatever the file holds by now; selectItem returns and its locals are gone
SelectItem(p, k) ==
    LET r == run[p]
    IN  /\ r.pc = "listPrompt"
        /\ k \in 1..Len(itemChoices(r.found))
        /\ run' = [run EXCEPT ![p] =
                      [r EXCEPT !.item = selectItem(r.found, k),
                                !.found = <<>>,
                                !.pc = IF r.cmd = "remove" THEN "removeItem" ELSE "opn"]]
        /\ UNCHANGED file

\* selectItem for a collection read without items: the list prompt has
\* nothing to return, and the command ends in an uncaught TypeError (or never
\* returns, which is this process taking no further step)
SelectItemNone(p) ==
    LET r == run[p]
    IN  /\ r.pc = "listPrompt"
        /\ Len(itemChoices(r.found)) = 0
        /\ run' = [run EXCEPT ![p] = [r EXCEPT !.pc = "failed"]]
        /\ UNCHANGED file

\* store.removeItem of index.js, first half: getItems and filter
RemoveItemGet(p) ==
    LET r == run[p]
    IN  /\ r.pc = "removeItem"
        /\ run' = [run EXCEPT ![p] =
                      [r EXCEPT !.items = removeItem(file, r.item),
                                !.pc = "saveItems"]]
        /\ UNCHANGED file

\* opn(item.url)
Opn(p) ==
    LET r == run[p]
    IN  /\ r.pc = "opn"
        /\ run' = [run EXCEPT ![p] = [r EXCEPT !.opened = r.item.url, !.pc = "done"]]
        /\ UNCHANGED file

ListCommand(p) ==
    /\ run[p].pc = "idle"
    /\ run' = [run EXCEPT ![p] =
                  [IdleRun EXCEPT !.cmd = "list",
                                  !.tree = listCommand(file), !.pc = "done"]]
    /\ UNCHANGED file

\* the process ends; the next invocation starts afresh
Exit(p) ==
    /\ run[p].pc \in {"done", "failed"}
    /\ run' = [run EXCEPT ![p] = IdleRun]
    /\ UNCHANGED file

-----------------------------------------------------------------------------
(* The earlier copy of the script, part_000 *)

\* `add <url>` of part_000: the collection is selected before anything is
\* fetched
AddCommand_part000(p, url) ==
    /\ run[p].pc = "idle"
    /\ ~isUri(url) \/ getItem(file, url) # undefined \/ Len(file) < MaxItems
    /\ LET r == [IdleRun EXCEPT !.cmd = "add", !.url = url]
       IN  run' = [run EXCEPT ![p] =
                      IF ~isUri(url)
                      THEN [r EXCEPT !.pc = "done", !.out = Err("not valid", <<>>)]
                      ELSE IF getItem(file, url) # undefined
                      THEN [r EXCEPT !.pc = "done",
                                     !.out = Err("already added",
                                                 getItem(file, url).collection)]
                      ELSE [r EXCEPT !.pc = "selectCollection"]]
    /\ UNCHANGED file

\* the source callback of part_000 runs for the text typed so far
Source_part000(p, input) ==
    LET r == run[p]
    IN  /\ r.pc = "selectCollection"
        /\ run' = [run EXCEPT ![p] =
                      [r EXCEPT !.input = input,
                                !.choices = source_part000(file, input)]]
        /\ UNCHANGED file

\* selectCollection of part_000 (suggestOnly): the answer is the line as
\* typed (k = 0) or as completed from line k of the choices shown
SelectCollection_part000(p, k) ==
    LET r      == run[p]
        answer == IF k = 0 THEN r.input ELSE r.choices[k]
    IN  /\ r.pc = "selectCollection"
        /\ k \in 0..Len(r.choices)
        /\ validate_part000(answer)
        /\ run' = [run EXCEPT ![p] =
                      [r EXCEPT !.answer = answer,
                                !.collection = selectCollectionResult(answer),
                                !.input = <<>>,
                                !.choices = <<>>,
                                !.got = IF r.cmd = "add" THEN "pending" ELSE r.got,
                                !.pc = IF r.cmd = "add" THEN "createItem"
                                       ELSE "selectItem"]]
        /\ UNCHANGED file

\* createItem of part_000: got resolves and the item is built
CreateItem_part000(p, resp) ==
    LET r == run[p]
    IN  /\ r.pc = "createItem"
        /\ run' = [run EXCEPT ![p] =
                      [r EXCEPT !.got = "resolved",
                                !.item = createItem_part000(r.url, r.collection, resp),
                                !.pc = "inputTitle"]]
        /\ UNCHANGED file

\* createItem of part_000: got rejects and so does the command
CreateItemReject_part000(p) ==
    LET r == run[p]
    IN  /\ r.pc = "createItem"
        /\ run' = [run EXCEPT ![p] = [r EXCEPT !.got = "rejected", !.pc = "failed"]]
        /\ UNCHANGED file

\* store.removeItem of part_000, first half: getItems and filter
RemoveItemGet_part000(p) ==
    LET r == run[p]
    IN  /\ r.pc = "removeItem"
        /\ run' = [run EXCEPT ![p] =
                      [r EXCEPT !.items = removeItem_part000(file, r.item),
                                !.pc = "saveItems"]]
        /\ UNCHANGED file

-----------------------------------------------------------------------------
(* Specifications *)

UrlArgs == {<<>>, NotAUrl, UrlSpace, UrlA, UrlASlash, UrlB, UrlC}
UrlLines == {NotAUrl, UrlAUpper, UrlB}
Inputs == {<<>>, Str_a, createCollectionStr}
Responses == {[status |-> 200, title |-> Str_s], [status |-> 404]}
TitleLines == {<<>>, Str_t, LongTitle}
Choices == 1..(MaxItems + 1)

\* index.js, one invocation at a time
Next ==
    \E p \in {1} :
        \/ \E url \in UrlArgs : AddCommand(p, url)
        \/ \E url \in UrlLines : InputUrl(p, url)
        \/ \E input \in Inputs : Source(p, input)
        \/ \E k \in Choices : SelectCollection(p, k)
        \/ \E resp \in Responses : GotResolve(p, resp)
        \/ GotReject(p)
        \/ Timeout(p)
        \/ Join(p)
        \/ \E line \in TitleLines : InputTitle(p, line)
        \/ AddItemGet(p)
        \/ SaveItems(p)
        \/ RemoveCommand(p)
        \/ OpenCommand(p)
        \/ SelectItemGet(p)
        \/ \E k \in Choices : SelectItem(p, k)
        \/ SelectItemNone(p)
        \/ RemoveItemGet(p)
        \/ Opn(p)
        \/ ListCommand(p)
        \/ Exit(p)

Spec == Init /\ [][Next]_vars

\* part_000, one invocation at a time
NextPart000 ==
    \E p \in {1} :
        \/ \E url \in UrlArgs \ {<<>>} : AddCommand_part000(p, url)
        \/ \E input \in Inputs : Source_part000(p, input)
        \/ \E k \in {0} \cup Choices : SelectCollection_part000(p, k)
        \/ \E resp \in Responses : CreateItem_part000(p, resp)
        \/ CreateItemReject_part000(p)
        \/ \E line \in TitleLines : InputTitle(p, line)
        \/ AddItemGet(p)
        \/ SaveItems(p)
        \/ RemoveCommand(p)
        \/ OpenCommand(p)
        \/ SelectItemGet(p)
        \/ \E k \in Choices : SelectItem(p, k)
        \/ SelectItemNone(p)
        \/ RemoveItemGet_part000(p)
        \/ Opn(p)
        \/ ListCommand(p)
        \/ Exit(p)

SpecPart000 == Init /\ [][NextPart000]_vars

\* index.js, two invocations against the same file, on a smaller domain of
\* inputs
ConcUrls == {UrlA, UrlB}
ConcInputs == {Str_a}
ConcResponses == {[status |-> 200, title |-> Str_s]}
ConcTitleLines == {Str_t}

NextConc ==
    \E p \in Procs :
        \/ \E url \in {<<>>} \cup ConcUrls : AddCommand(p, url)
        \/ \E url \in ConcUrls : InputUrl(p, url)
        \/ \E input \in ConcInputs : Source(p, input)
        \/ \E k \in Choices : SelectCollection(p, k)
        \/ \E resp \in ConcResponses : GotResolve(p, resp)
        \/ GotReject(p)
        \/ Timeout(p)
        \/ Join(p)
        \/ \E line \in ConcTitleLines : InputTitle(p, line)
        \/ AddItemGet(p)
        \/ SaveItems(p)
        \/ RemoveCommand(p)
        \/ OpenCommand(p)
        \/ SelectItemGet(p)
        \/ \E k \in Choices : SelectItem(p, k)
        \/ SelectItemNone(p)
        \/ RemoveItemGet(p)
        \/ Opn(p)
        \/ ListCommand(p)
        \/ Exit(p)

SpecConc == Init /\ [][NextConc]_vars

-----------------------------------------------------------------------------
(* Properties *)

HasHash(items, url) == \E i \in 1..Len(items) : items[i].hash = hashUrl(url)

\* the list old with its element k left out
Without(old, k) == SubSeq(old, 1, k - 1) \o SubSeq(old, k + 1, Len(old))

\* C1: when the url of an add command is valid and some stored item has its
\* hash, the step that runs the checks ends the command with an error naming
\* that item's collection, starts neither the collection prompt nor the
\* fetch, and leaves the persisted list as it was.
C1_DuplicateRejected ==
    [][\A p \in Procs :
          LET r == run[p]
              n == run'[p]
          IN  ( /\ r.pc \in {"idle", "inputUrl"}
                /\ n.cmd = "add"
                /\ n.pc \notin {"idle", "inputUrl"}
                /\ isUri(n.url)
                /\ HasHash(file, n.url) )
              => /\ n.pc = "done"
                 /\ n.out.stream = "err"
                 /\ n.out.msg = "already added"
                 /\ \A i \in 1..Len(file) :
                        file[i].hash = hashUrl(n.url)
                            => n.out.collection = file[i].collection
                 /\ n.sel = "none" /\ n.fetch = "none"
                 /\ n.got = "none" /\ n.timer = "none"
                 /\ file' = file]_vars

\* C1 witness: http://a.io is stored and `add http://a.io/` was rejected
C1_Witness ==
    \E p \in Procs :
        /\ run[p].out.msg = "already added"
        /\ run[p].url = UrlASlash
        /\ \E i \in 1..Len(file) : file[i].url = UrlA

\* C2: the save of a remove command deletes exactly the one item whose url
\* is the chosen item's url and keeps every other item, in order.
C2_RemovesExactlyTheItem ==
    [][\A p \in Procs :
          ( /\ run[p].pc = "saveItems"
            /\ run[p].cmd = "remove"
            /\ run'[p].pc = "done" )
          => \E k \in 1..Len(file) :
                /\ file[k].url = run[p].item.url
                /\ \A j \in 1..Len(file) : file[j].url = run[p].item.url => j = k
                /\ file' = Without(file, k)]_vars

\* C3: no two items of the persisted list have the same hash.
C3_UniqueHashes ==
    \A i, j \in 1..Len(file) : i # j => file[i].hash # file[j].hash

\* C3 witness: two items are stored and a further add was rejected
C3_Witness ==
    /\ Len(file) = 2
    /\ \E p \in Procs : run[p].out.msg = "already added"

\* C4: a step in which the fetch of an add command fails while the race is
\* open (the request rejects, or the timeout fires) makes fetchItemMeta
\* yield the record with the url only, and the command does not fail.
C4_FetchFailureDegrades ==
    [][\A p \in Procs :
          ( /\ run[p].fetch = "pending"
            /\ \/ run[p].got = "pending" /\ run'[p].got = "rejected"
               \/ run[p].timer = "pending" /\ run'[p].timer = "fired" )
          => /\ run'[p].fetch = "fulfilled"
             /\ run'[p].meta = [url |-> run[p].url]
             /\ run'[p].pc # "failed"]_vars

\* C5: when the timeout wins the race the result is the record {url}; a
\* response of the abandoned request arriving later changes neither the
\* result, the item nor the store; and an add on an empty store then ends
\* with exactly one stored item, with the given url, the collection selected
\* (the new name typed at the prompt, whose create choice was taken) and the
\* title entered.
C5_TimeoutWins ==
    /\ [](\A p \in Procs :
            LET r == run[p]
            IN  r.resp = undefined
                => /\ r.fetch = "fulfilled"
                   /\ r.meta = [url |-> r.url]
                   /\ ( r.pc = "done" /\ r.writes = 1 /\ Len(r.items) = 1 )
                      => /\ file = <<[hash       |-> hashUrl(r.url),
                                      url        |-> r.url,
                                      collection |->
                                          SubSeq(r.answer,
                                                 Len(createCollectionStr) + 1,
                                                 Len(r.answer)),
                                      title      |-> r.typed]>>
                         /\ startsWith(r.answer, createCollectionStr)
                         /\ r.typed # <<>>)
    /\ [][\A p \in Procs :
            ( /\ run[p].resp = undefined
              /\ run[p].got = "pending"
              /\ run'[p].got \in {"resolved", "rejected"} )
            => /\ run'[p].meta = run[p].meta
               /\ run'[p].resp = undefined
               /\ run'[p].item = run[p].item
               /\ run'[p].pc = run[p].pc
               /\ file' = file]_vars

\* C5 witness: the add ended on a store that was empty, the timeout had won,
\* and the response arrived afterwards
C5_Witness ==
    \E p \in Procs :
        /\ run[p].pc = "done" /\ run[p].cmd = "add" /\ run[p].writes = 1
        /\ run[p].resp = undefined
        /\ run[p].got = "resolved"
        /\ Len(file) = 1

\* C6: the tree of the list command has one node per distinct collection,
\* and every stored item is one entry under its own collection's node and
\* under no other node.
C6_TreeHoldsEveryItem ==
    \A p \in Procs :
        LET r == run[p]
        IN  ( r.cmd = "list" /\ r.pc = "done" )
            => /\ DOMAIN r.tree = {file[i].collection : i \in 1..Len(file)}
               /\ \A c \in DOMAIN r.tree :
                      Cardinality(DOMAIN r.tree[c])
                          = Len(getCollectionItems(file, c))
               /\ \A i \in 1..Len(file) :
                      \A c \in DOMAIN r.tree :
                          (\E k \in DOMAIN r.tree[c] : r.tree[c][k].url = file[i].url)
                              <=> c = file[i].collection

\* C7: in remove and open the name that selectCollection returned and that
\* selectItem receives is a collection with at least one stored item.
C7_SelectedCollectionExists ==
    \A p \in Procs :
        run[p].pc = "selectItem"
            => Len(getCollectionItems(file, run[p].collection)) > 0

\* C8: with two invocations interleaving, every save replaces the whole
\* persisted list by the writer's own read-modify result, whatever the other
\* invocation saved in between, and an invocation that saved reports
\* success: nothing detects the loss.
C8_LastWriteWins ==
    /\ [][\A p \in Procs :
            ( run[p].pc = "saveItems" /\ run'[p].pc = "done" )
            => /\ file' = run[p].items
               /\ run'[p].out.stream = "info"]_vars
    /\ [](\A p \in Procs :
            run[p].writes > 0 => run[p].pc = "done" /\ run[p].out.stream = "info")

\* C8 witness: q added an item and reported success; p, an add that had read
\* the list before, then replaced the file holding q's item by its own list
\* without it, and reported success too
C8_Witness ==
    \E p, q \in Procs :
        /\ p # q
        /\ run[q].pc = "done" /\ run[q].cmd = "add" /\ run[q].writes = 1
        /\ run[q].out.stream = "info"
        /\ run[p].pc = "done" /\ run[p].cmd = "add" /\ run[p].writes = 1
        /\ run[p].out.stream = "info"
        /\ \E i \in 1..Len(run[p].replaced) : run[p].replaced[i] = run[q].item
        /\ file = run[p].items
        /\ \A i \in 1..Len(file) : file[i] # run[q].item

AddConfirmed(r) ==
    /\ r.sel = "done"
    /\ r.fetch = "fulfilled"
    /\ "title" \in DOMAIN r.item
    /\ r.typed # <<>> \/ "title" \in DOMAIN r.meta

\* C9: in an add command the collection prompt and the fetch are started in
\* the same step; the store is written at most once, and only by a command
\* whose prompt and fetch have both completed and whose title prompt has
\* returned; a command that failed has written nothing.
C9_WriteOnlyAfterJoin ==
    /\ [](\A p \in Procs :
            LET r == run[p]
            IN  r.cmd = "add"
                => /\ (r.sel = "none") <=> (r.fetch = "none")
                   /\ (r.sel = "none") <=> (r.got = "none")
                   /\ (r.sel = "none") <=> (r.timer = "none")
                   /\ r.writes <= 1
                   /\ r.pc \in {"addItem", "saveItems"} => AddConfirmed(r) /\ r.writes = 0
                   /\ r.writes = 1 => AddConfirmed(r) /\ r.pc = "done"
                   /\ r.pc = "failed" => r.writes = 0)
    /\ [][file' # file
            => \E p \in Procs :
                  /\ run[p].pc = "saveItems"
                  /\ run[p].writes = 0
                  /\ run[p].cmd = "add" => AddConfirmed(run[p])]_vars

\* C9 witness: an add command has written its item
C9_Witness ==
    \E p \in Procs :
        /\ run[p].cmd = "add" /\ run[p].pc = "done" /\ run[p].writes = 1
        /\ run[p].got = "resolved" /\ run[p].timer = "pending"
        /\ Len(file) = 2

\* C10: every stored item has hash = hashUrl(url), a non-empty title and a
\* non-empty collection, and a step changes no stored item: each item of the
\* new list is an item of the old one or the item the add just saved.
C10_ItemsWellFormed ==
    /\ [](\A i \in 1..Len(file) :
            /\ file[i].hash = hashUrl(file[i].url)
            /\ Len(file[i].title) > 0
            /\ Len(file[i].collection) > 0)
    /\ [][\A j \in 1..Len(file') :
            \/ \E i \in 1..Len(file) : file[i] = file'[j]
            \/ \E p \in Procs :
                  /\ run[p].pc = "saveItems" /\ run[p].cmd = "add"
                  /\ file'[j] = run[p].item]_vars

=============================================================================
